---- MODULE Spec2Model ----
(***************************************************************************)
(* Model of Restaurante.py: the dish repository (Restaurant.platillos),    *)
(* the order log (Restaurant.ordenes), the order counter, the closing      *)
(* report (CierreCaja) and the two directories of backing files.           *)
(*                                                                         *)
(* A Python string is a sequence of tokens; the token SEP stands for the   *)
(* two characters ": " on which cargar_platillos splits a line.  A price   *)
(* is an integer (the floats the program handles here are whole numbers).  *)
(* A Platillo is an object: the dictionary and the line items of the       *)
(* orders hold references into heap.                                       *)
(***************************************************************************)
EXTENDS Integers, Sequences, FiniteSets, TLC

\* ---------------------------------------------------------------- bounds
MaxOrdenes == 2
MaxItems == 2
MaxNumero == 3

\* ---------------------------------------------------------------- inputs
SEP == ": "
Ids == {<<"p1">>, <<"p2">>}
Nombres == {<<"sopa">>, <<"sopa", SEP, "fria">>}
Categorias == {<<"Entrada">>, <<"Postre">>}
PrecioEntradas == {<<"5">>, <<"1", "0">>, <<"x">>}
Clientes == {<<"ana">>}
Cantidades == {1, 2}
Fechas == {1, 2}
Respuestas == {"s", "n"}
ResultadosEscritura == {"ok", "sin_abrir", "truncado"}
ResultadosBorrado == {"ok", "error"}

None == [tipo |-> "None"]

\* ------------------------------------------------------- strings, numbers
DigitChars == <<"0", "1", "2", "3", "4", "5", "6", "7", "8", "9">>

EsDigito(c) == \E i \in 1..10 : DigitChars[i] = c

ValorDigito(c) == (CHOOSE i \in 1..10 : DigitChars[i] = c) - 1

RECURSIVE ValorDigitos(_)
ValorDigitos(s) ==
    IF s = <<>> THEN 0
    ELSE 10 * ValorDigitos(SubSeq(s, 1, Len(s) - 1)) + ValorDigito(s[Len(s)])

RECURSIVE Digitos(_)
Digitos(n) ==
    IF n < 10 THEN <<DigitChars[n + 1]>>
    ELSE Digitos(n \div 10) \o <<DigitChars[(n % 10) + 1]>>

SoloDigitos(s) == s # <<>> /\ \A i \in 1..Len(s) : EsDigito(s[i])

\* float(s): a whole number, optionally signed, optionally followed by ".0"
SinSigno(s) == IF s # <<>> /\ s[1] = "-" THEN Tail(s) ELSE s

ParteEntera(s) ==
    LET u == SinSigno(s)
        n == Len(u)
    IN  IF n >= 3 /\ u[n - 1] = "." /\ u[n] = "0" THEN SubSeq(u, 1, n - 2) ELSE u

EsFloat(s) == SoloDigitos(ParteEntera(s))

Float(s) ==
    IF s # <<>> /\ s[1] = "-" THEN 0 - ValorDigitos(ParteEntera(s))
    ELSE ValorDigitos(ParteEntera(s))

\* f'{precio}' of a whole float: "5.0", "-5.0"
FormatoFloat(x) ==
    (IF x < 0 THEN <<"-">> \o Digitos(0 - x) ELSE Digitos(x)) \o <<".", "0">>

\* f'{n:04d}'
Formato04d(n) ==
    LET d == Digitos(n)
    IN  [i \in 1..(IF Len(d) < 4 THEN 4 - Len(d) ELSE 0) |-> "0"] \o d

\* int(s)
EsInt(s) == SoloDigitos(s)
Int_(s) == ValorDigitos(s)

\* s.split(': '): the pieces between the occurrences of SEP
RECURSIVE Split(_)
Split(s) ==
    IF \A i \in 1..Len(s) : s[i] # SEP THEN <<s>>
    ELSE LET k == CHOOSE i \in 1..Len(s) :
                     s[i] = SEP /\ \A j \in 1..(i - 1) : s[j] # SEP
         IN  <<SubSeq(s, 1, k - 1)>> \o Split(SubSeq(s, k + 1, Len(s)))

RECURSIVE Suma(_)
Suma(s) == IF s = <<>> THEN 0 ELSE s[1] + Suma(Tail(s))

Rango(f) == {f[x] : x \in DOMAIN f}

\* ------------------------------------------------------------------ state
VARIABLES
    heap,                \* the Platillo objects: reference -> fields
    platillos,           \* Restaurant.platillos: id -> reference
    ordenes,             \* Restaurant.ordenes: sequence of Orden
    contador_ordenes,    \* Restaurant.contador_ordenes
    cierre_caja,         \* Restaurant.cierre_caja: None or a CierreCaja
    orden,               \* the Orden under construction in crear_orden, or None
    archivos_platillos,  \* restaurant/platillos/: file name -> lines
    archivos_ordenes,    \* restaurant/ordenes/: set of file names
    salida,              \* the operation last run and the message it ended with
    max_asignado         \* history: largest order number committed since the
                         \* directory of orders was last emptied

vars == <<heap, platillos, ordenes, contador_ordenes, cierre_caja, orden,
          archivos_platillos, archivos_ordenes, salida, max_asignado>>

\* ------------------------------------------------------------ class Platillo
\* Platillo.__init__ as it would be with nombre and categoria assigned crosswise
Platillo_campos_cruzados(id_platillo, nombre, precio, categoria) ==
    [id_platillo |-> id_platillo, nombre |-> categoria, precio |-> precio,
     categoria |-> nombre, disponible |-> TRUE]

Platillo(id_platillo, nombre, precio, categoria) ==
    [id_platillo |-> id_platillo, nombre |-> nombre, precio |-> precio,
     categoria |-> categoria, disponible |-> TRUE]

\* A reference no living object has: the id the object is made for and a serial
NuevoRef(h, id_platillo) ==
    <<id_platillo,
      CHOOSE k \in 1..(Cardinality(DOMAIN h) + 1) :
          /\ <<id_platillo, k>> \notin DOMAIN h
          /\ \A j \in 1..(k - 1) : <<id_platillo, j>> \in DOMAIN h>>

ItemsDe(ords, o) ==
    UNION {Rango(ords[i].platillos) : i \in 1..Len(ords)}
        \cup (IF o = None THEN {} ELSE Rango(o.platillos))

\* Objects no dictionary entry and no line item refers to are reclaimed
Recolectar(h, plat, ords, o) ==
    LET vivos == Rango(plat) \cup {it.platillo : it \in ItemsDe(ords, o)}
    IN  [r \in (DOMAIN h \cap vivos) |-> h[r]]

\* dict[k] = v and del dict[k]; also the creation and removal of a file
Poner(f, k, v) == [x \in DOMAIN f \cup {k} |-> IF x = k THEN v ELSE f[x]]

Quitar(f, k) == [x \in DOMAIN f \ {k} |-> f[x]]

Permutaciones(S) ==
    {s \in [1..Cardinality(S) -> S] : \A i, j \in 1..Cardinality(S) : s[i] = s[j] => i = j}

\* ------------------------------------------------------- dish persistence
Blancos == {" ", "\n", "\t"}

RECURSIVE Strip(_)
Strip(s) ==
    IF s = <<>> THEN s
    ELSE IF s[1] \in Blancos THEN Strip(Tail(s))
    ELSE IF s[Len(s)] \in Blancos THEN Strip(SubSeq(s, 1, Len(s) - 1))
    ELSE s

\* The five lines guardar_platillo writes
LineasPlatillo(p) ==
    << <<"ID", SEP>> \o p.id_platillo \o <<"\n">>,
       <<"Nombre", SEP>> \o p.nombre \o <<"\n">>,
       <<"Precio", SEP>> \o FormatoFloat(p.precio) \o <<"\n">>,
       <<"Categoría", SEP>> \o p.categoria \o <<"\n">>,
       <<"Disponible", SEP>> \o <<IF p.disponible THEN "True" ELSE "False">> \o <<"\n">> >>

\* open(CARPETA_PLATILLOS + id + EXTENSION, 'w') and the five writes; fs is what
\* the file system does: "ok", "sin_abrir" (open raises, the file is untouched),
\* "truncado" (open succeeds, a write raises: the file is left without its lines)
guardar_platillo(archivos, p, fs) ==
    CASE fs = "ok" -> Poner(archivos, p.id_platillo, LineasPlatillo(p))
      [] fs = "truncado" -> Poner(archivos, p.id_platillo, <<>>)
      [] OTHER -> archivos

Campo(lineas, i) == Strip(Split(lineas[i])[2])

\* The body of the try in cargar_platillos raises on this file
ArchivoMalo(lineas) ==
    \/ Len(lineas) < 5
    \/ \E i \in 1..5 : Len(Split(lineas[i])) < 2
    \/ ~EsFloat(Campo(lineas, 3))

LeerPlatillo(lineas) ==
    [id_platillo |-> Campo(lineas, 1), nombre |-> Campo(lineas, 2),
     precio |-> Float(Campo(lineas, 3)), categoria |-> Campo(lineas, 4),
     disponible |-> (Campo(lineas, 5) = <<"True">>)]

\* cargar_platillos over the files in the order os.listdir gave them:
\* the dictionary id -> fields (a later file with the same ID line wins)
RECURSIVE cargar_platillos(_, _)
cargar_platillos(archivos, listado) ==
    IF listado = <<>> THEN <<>>
    ELSE LET antes == cargar_platillos(archivos, SubSeq(listado, 1, Len(listado) - 1))
             lineas == archivos[listado[Len(listado)]]
         IN  IF ArchivoMalo(lineas) THEN antes
             ELSE Poner(antes, LeerPlatillo(lineas).id_platillo, LeerPlatillo(lineas))

\* -------------------------------------------------------- order persistence
\* The name guardar_orden gives the file: orden_{numero:04d}_{fecha}
NombreArchivoOrden(o) == [numero |-> Formato04d(o.numero_orden), fecha |-> o.fecha]

guardar_orden(archivos, o, fs) ==
    IF fs = "sin_abrir" THEN archivos ELSE archivos \cup {NombreArchivoOrden(o)}

\* cargar_ordenes as it would be counting the files instead of reading the names
cargar_ordenes_cuenta_archivos(archivos) == Cardinality(archivos) + 1

\* cargar_ordenes: the counter recovered from the file names
cargar_ordenes(archivos) ==
    LET numeros == {Int_(a.numero) : a \in {b \in archivos : EsInt(b.numero)}}
        max_orden == IF numeros = {} THEN 0
                     ELSE CHOOSE n \in numeros : \A m \in numeros : m <= n
    IN  max_orden + 1

\* --------------------------------------------------------------- class Orden
Orden(numero_orden, cliente, fecha) ==
    [numero_orden |-> numero_orden, cliente |-> cliente, fecha |-> fecha,
     platillos |-> <<>>, total |-> 0]

\* Orden.agregar_platillo as it would be with "self.total =" for "self.total +="
Orden_agregar_platillo_total_pisado(o, h, ref, cantidad) ==
    [o EXCEPT !.platillos = Append(@, [platillo |-> ref, cantidad |-> cantidad,
                                       subtotal |-> h[ref].precio * cantidad]),
              !.total = h[ref].precio * cantidad]

\* Orden.agregar_platillo: the item keeps the reference to the Platillo object
\* and the subtotal computed from its price now
Orden_agregar_platillo(o, h, ref, cantidad) ==
    [o EXCEPT !.platillos = Append(@, [platillo |-> ref, cantidad |-> cantidad,
                                       subtotal |-> h[ref].precio * cantidad]),
              !.total = @ + h[ref].precio * cantidad]

\* ---------------------------------------------------------- class CierreCaja
RECURSIVE Items(_)
Items(ords) == IF ords = <<>> THEN <<>> ELSE ords[1].platillos \o Items(Tail(ords))

\* _calcular_platillos_vendidos as it would be counting the items, not the units
_calcular_platillos_vendidos_cuenta_items(ords) == Len(Items(ords))

_calcular_platillos_vendidos(ords) ==
    LET its == Items(ords) IN Suma([i \in 1..Len(its) |-> its[i].cantidad])

\* categorias[categoria] += cantidad on a dict that keeps insertion order
Acumular(categorias, categoria, cantidad) ==
    IF \E i \in 1..Len(categorias) : categorias[i][1] = categoria
    THEN [i \in 1..Len(categorias) |->
             IF categorias[i][1] = categoria
             THEN <<categoria, categorias[i][2] + cantidad>> ELSE categorias[i]]
    ELSE Append(categorias, <<categoria, cantidad>>)

RECURSIVE ContarCategorias(_, _)
ContarCategorias(its, h) ==
    IF its = <<>> THEN <<>>
    ELSE Acumular(ContarCategorias(SubSeq(its, 1, Len(its) - 1), h),
                  h[its[Len(its)].platillo].categoria, its[Len(its)].cantidad)

\* _categoria_mas_vendida as it would be taking the last of the largest values
_categoria_mas_vendida_ultimo_maximo(ords, h) ==
    LET categorias == ContarCategorias(Items(ords), h)
    IN  IF categorias = <<>> THEN None
        ELSE categorias[CHOOSE i \in 1..Len(categorias) :
                 /\ \A j \in 1..Len(categorias) : categorias[j][2] <= categorias[i][2]
                 /\ \A j \in (i + 1)..Len(categorias) : categorias[j][2] < categorias[i][2]]

\* max(categorias.items(), key=lambda x: x[1]): the first item of the largest value
_categoria_mas_vendida(ords, h) ==
    LET categorias == ContarCategorias(Items(ords), h)
    IN  IF categorias = <<>> THEN None
        ELSE categorias[CHOOSE i \in 1..Len(categorias) :
                 /\ \A j \in 1..Len(categorias) : categorias[j][2] <= categorias[i][2]
                 /\ \A j \in 1..(i - 1) : categorias[j][2] < categorias[i][2]]

Abs(x) == IF x < 0 THEN 0 - x ELSE x

RECURSIVE Mcd(_, _)
Mcd(a, b) == IF b = 0 THEN a ELSE Mcd(b, a % b)

\* a / b, exact: the fraction in lowest terms
Division(a, b) == [num |-> a \div Mcd(Abs(a), b), den |-> b \div Mcd(Abs(a), b)]

\* CierreCaja.__init__; self.ordenes is the list it was given, not a copy
\* (see cierre_ordenes)
CierreCaja(ords, h) ==
    [total_ordenes |-> Len(ords),
     total_ingresos |-> Suma([i \in 1..Len(ords) |-> ords[i].total]),
     promedio_orden |->
         IF Len(ords) > 0
         THEN Division(Suma([i \in 1..Len(ords) |-> ords[i].total]), Len(ords))
         ELSE Division(0, 1),
     platillos_vendidos |-> _calcular_platillos_vendidos(ords),
     categoria_mas_vendida |-> _categoria_mas_vendida(ords, h)]

\* cierre.ordenes: the same list object as Restaurant.ordenes
cierre_ordenes == ordenes

\* ------------------------------------------------------------------- Init
\* app(): crear_directorios() and Restaurant() over empty directories
Init ==
    /\ heap = <<>>
    /\ platillos = <<>>
    /\ ordenes = <<>>
    /\ contador_ordenes = 1
    /\ cierre_caja = None
    /\ orden = None
    /\ archivos_platillos = <<>>
    /\ archivos_ordenes = {}
    /\ salida = <<"app", "iniciado">>
    /\ max_asignado = 0

\* ------------------------------------------------------------ the menu loop
Menu == <<"app", "menu">>

\* app() is at the top of its loop, about to read an option
EnMenu == orden = None /\ salida = Menu

\* The operation chosen has returned and the loop shows the menu again
mostrar_menu ==
    /\ orden = None
    /\ salida # Menu
    /\ salida' = Menu
    /\ UNCHANGED <<heap, platillos, ordenes, contador_ordenes, cierre_caja, orden,
                   archivos_platillos, archivos_ordenes, max_asignado>>

\* ---------------------------------------------------------- dish operations
buscar_platillo(id_platillo) ==
    IF id_platillo \in DOMAIN platillos THEN heap[platillos[id_platillo]] ELSE None

\* agregar_platillo as it would be without the check of line 126
agregar_platillo_sin_comprobar(id_platillo, nombre, precio, categoria, fs) ==
    /\ EnMenu
    /\ IF ~EsFloat(precio)
       THEN /\ salida' = <<"agregar_platillo", "precio_invalido">>
            /\ UNCHANGED <<heap, platillos, archivos_platillos>>
       ELSE LET ref == NuevoRef(heap, id_platillo)
                platillo == Platillo(id_platillo, nombre, Float(precio), categoria)
            IN  /\ platillos' = Poner(platillos, id_platillo, ref)
                /\ heap' = Recolectar(Poner(heap, ref, platillo), platillos', ordenes, orden)
                /\ archivos_platillos' = guardar_platillo(archivos_platillos, platillo, fs)
                /\ salida' = <<"agregar_platillo",
                               IF fs = "ok" THEN "agregado" ELSE "error_inesperado">>
    /\ UNCHANGED <<ordenes, contador_ordenes, cierre_caja, orden, archivos_ordenes,
                   max_asignado>>

agregar_platillo(id_platillo, nombre, precio, categoria, fs) ==
    /\ EnMenu
    /\ IF id_platillo \in DOMAIN platillos
       THEN /\ salida' = <<"agregar_platillo", "ya_existe">>
            /\ UNCHANGED <<heap, platillos, archivos_platillos>>
       ELSE IF ~EsFloat(precio)
       THEN /\ salida' = <<"agregar_platillo", "precio_invalido">>
            /\ UNCHANGED <<heap, platillos, archivos_platillos>>
       ELSE LET ref == NuevoRef(heap, id_platillo)
                platillo == Platillo(id_platillo, nombre, Float(precio), categoria)
            IN  /\ heap' = Poner(heap, ref, platillo)
                /\ platillos' = Poner(platillos, id_platillo, ref)
                /\ archivos_platillos' = guardar_platillo(archivos_platillos, platillo, fs)
                /\ salida' = <<"agregar_platillo",
                               IF fs = "ok" THEN "agregado" ELSE "error_inesperado">>
    /\ UNCHANGED <<ordenes, contador_ordenes, cierre_caja, orden, archivos_ordenes,
                   max_asignado>>

\* Lines 193-203 as they would be if an unparseable price gave up the whole edit
PlatilloEditado_precio_invalido_abandona(p, nuevo_nombre, nuevo_precio, nueva_categoria, disponible) ==
    LET p1 == IF nuevo_nombre # <<>> THEN [p EXCEPT !.nombre = nuevo_nombre] ELSE p
        p2 == IF nuevo_precio # <<>> /\ EsFloat(nuevo_precio)
              THEN [p1 EXCEPT !.precio = Float(nuevo_precio)] ELSE p1
        p3 == IF nueva_categoria # <<>> THEN [p2 EXCEPT !.categoria = nueva_categoria] ELSE p2
    IN  IF nuevo_precio # <<>> /\ ~EsFloat(nuevo_precio) THEN p
        ELSE IF disponible # "" THEN [p3 EXCEPT !.disponible = (disponible = "s")] ELSE p3

\* Lines 193-203: the fields of the dish after the four inputs are applied
PlatilloEditado(p, nuevo_nombre, nuevo_precio, nueva_categoria, disponible) ==
    LET p1 == IF nuevo_nombre # <<>> THEN [p EXCEPT !.nombre = nuevo_nombre] ELSE p
        p2 == IF nuevo_precio # <<>> /\ EsFloat(nuevo_precio)
              THEN [p1 EXCEPT !.precio = Float(nuevo_precio)] ELSE p1
        p3 == IF nueva_categoria # <<>> THEN [p2 EXCEPT !.categoria = nueva_categoria] ELSE p2
    IN  IF disponible # "" THEN [p3 EXCEPT !.disponible = (disponible = "s")] ELSE p3

editar_platillo(id_platillo, nuevo_nombre, nuevo_precio, nueva_categoria, disponible, fs) ==
    /\ EnMenu
    /\ IF id_platillo \notin DOMAIN platillos
       THEN /\ salida' = <<"editar_platillo", "no_encontrado">>
            /\ UNCHANGED <<heap, archivos_platillos>>
       ELSE LET ref == platillos[id_platillo]
                platillo == PlatilloEditado(heap[ref], nuevo_nombre, nuevo_precio,
                                            nueva_categoria, disponible)
            IN  /\ heap' = [heap EXCEPT ![ref] = platillo]
                /\ archivos_platillos' = guardar_platillo(archivos_platillos, platillo, fs)
                /\ salida' = <<"editar_platillo",
                               IF fs = "ok" THEN "actualizado" ELSE "error_inesperado">>
    /\ UNCHANGED <<platillos, ordenes, contador_ordenes, cierre_caja, orden,
                   archivos_ordenes, max_asignado>>

\* eliminar_platillo as it would be if a failed deletion put the dish back
eliminar_platillo_con_vuelta_atras(id_platillo, confirmacion, fs) ==
    /\ EnMenu
    /\ IF id_platillo \notin DOMAIN platillos
       THEN /\ salida' = <<"eliminar_platillo", "no_encontrado">>
            /\ UNCHANGED <<heap, platillos, archivos_platillos>>
       ELSE IF confirmacion # "s"
       THEN /\ salida' = <<"eliminar_platillo", "cancelada">>
            /\ UNCHANGED <<heap, platillos, archivos_platillos>>
       ELSE IF fs = "ok" /\ id_platillo \in DOMAIN archivos_platillos
       THEN /\ platillos' = Quitar(platillos, id_platillo)
            /\ heap' = Recolectar(heap, platillos', ordenes, orden)
            /\ archivos_platillos' = Quitar(archivos_platillos, id_platillo)
            /\ salida' = <<"eliminar_platillo", "eliminado">>
       ELSE /\ salida' = <<"eliminar_platillo", "error_archivo">>
            /\ UNCHANGED <<heap, platillos, archivos_platillos>>
    /\ UNCHANGED <<ordenes, contador_ordenes, cierre_caja, orden, archivos_ordenes,
                   max_asignado>>

eliminar_platillo(id_platillo, confirmacion, fs) ==
    /\ EnMenu
    /\ IF id_platillo \notin DOMAIN platillos
       THEN /\ salida' = <<"eliminar_platillo", "no_encontrado">>
            /\ UNCHANGED <<heap, platillos, archivos_platillos>>
       ELSE IF confirmacion # "s"
       THEN /\ salida' = <<"eliminar_platillo", "cancelada">>
            /\ UNCHANGED <<heap, platillos, archivos_platillos>>
       ELSE /\ platillos' = Quitar(platillos, id_platillo)
            /\ heap' = Recolectar(heap, platillos', ordenes, orden)
            /\ IF fs = "ok" /\ id_platillo \in DOMAIN archivos_platillos
               THEN /\ archivos_platillos' = Quitar(archivos_platillos, id_platillo)
                    /\ salida' = <<"eliminar_platillo", "eliminado">>
               ELSE /\ archivos_platillos' = archivos_platillos
                    /\ salida' = <<"eliminar_platillo", "error_archivo">>
    /\ UNCHANGED <<ordenes, contador_ordenes, cierre_caja, orden, archivos_ordenes,
                   max_asignado>>

\* --------------------------------------------------------- order operations
Max(a, b) == IF a < b THEN b ELSE a

\* int(s): digits with an optional sign
EsEntero(s) == EsInt(SinSigno(s))

Entero(s) == IF s # <<>> /\ s[1] = "-" THEN 0 - Int_(Tail(s)) ELSE Int_(s)

\* crear_orden as it would be if the counter advanced when the Orden is built
crear_orden_cuenta_al_construir(cliente, fecha) ==
    /\ EnMenu
    /\ IF cliente = <<"0">>
       THEN orden' = None /\ salida' = <<"crear_orden", "cancelada">>
                          /\ contador_ordenes' = contador_ordenes
       ELSE IF cliente = <<>>
       THEN orden' = None /\ salida' = <<"crear_orden", "sin_cliente">>
                          /\ contador_ordenes' = contador_ordenes
       ELSE /\ orden' = Orden(contador_ordenes, cliente, fecha)
            /\ contador_ordenes' = contador_ordenes + 1
            /\ salida' = <<"crear_orden", "agregando">>
    /\ UNCHANGED <<heap, platillos, ordenes, cierre_caja,
                   archivos_platillos, archivos_ordenes, max_asignado>>

\* crear_orden up to the construction of the Orden (lines 239-250)
crear_orden(cliente, fecha) ==
    /\ EnMenu
    /\ IF cliente = <<"0">>
       THEN orden' = None /\ salida' = <<"crear_orden", "cancelada">>
       ELSE IF cliente = <<>>
       THEN orden' = None /\ salida' = <<"crear_orden", "sin_cliente">>
       ELSE /\ orden' = Orden(contador_ordenes, cliente, fecha)
            /\ salida' = <<"crear_orden", "agregando">>
    /\ UNCHANGED <<heap, platillos, ordenes, contador_ordenes, cierre_caja,
                   archivos_platillos, archivos_ordenes, max_asignado>>

\* The input of one pass of the loop reaches orden.agregar_platillo (line 308)
EntradaAceptada(id_platillo, cantidad) ==
    /\ id_platillo # <<"0">>
    /\ id_platillo \in DOMAIN platillos
    /\ heap[platillos[id_platillo]].disponible
    /\ cantidad # <<"0">>
    /\ EsEntero(cantidad)
    /\ Entero(cantidad) > 0

\* The input of one pass asks whether to cancel the order (lines 260, 289)
EntradaCancela(id_platillo, cantidad) ==
    \/ id_platillo = <<"0">>
    \/ /\ id_platillo \in DOMAIN platillos
       /\ heap[platillos[id_platillo]].disponible
       /\ cantidad = <<"0">>

\* finalizar_orden as it would be without line 333 (the counter is not advanced)
finalizar_orden_sin_incremento(o, fs) ==
    IF Len(o.platillos) = 0
    THEN /\ salida' = <<"crear_orden", "sin_platillos">>
         /\ heap' = Recolectar(heap, platillos, ordenes, None)
         /\ UNCHANGED <<ordenes, contador_ordenes, archivos_ordenes, max_asignado>>
    ELSE /\ ordenes' = Append(ordenes, o)
         /\ archivos_ordenes' = guardar_orden(archivos_ordenes, o, fs)
         /\ contador_ordenes' = contador_ordenes
         /\ salida' = <<"crear_orden", IF fs = "ok" THEN "creada" ELSE "error_inesperado">>
         /\ max_asignado' = Max(max_asignado, o.numero_orden)
         /\ heap' = heap

\* Lines 326-333: the end of crear_orden once the loop is left with order o
finalizar_orden(o, fs) ==
    IF Len(o.platillos) = 0
    THEN /\ salida' = <<"crear_orden", "sin_platillos">>
         /\ heap' = Recolectar(heap, platillos, ordenes, None)
         /\ UNCHANGED <<ordenes, contador_ordenes, archivos_ordenes, max_asignado>>
    ELSE /\ ordenes' = Append(ordenes, o)
         /\ archivos_ordenes' = guardar_orden(archivos_ordenes, o, fs)
         /\ contador_ordenes' = IF fs = "ok" THEN contador_ordenes + 1 ELSE contador_ordenes
         /\ salida' = <<"crear_orden", IF fs = "ok" THEN "creada" ELSE "error_inesperado">>
         /\ max_asignado' = Max(max_asignado, o.numero_orden)
         /\ heap' = heap

\* One pass of the while loop of crear_orden (lines 255-324) and, when the pass
\* leaves the loop, the end of crear_orden. respuesta answers the one s/n
\* question the pass asks.
paso_orden(id_platillo, cantidad, respuesta, fs) ==
    /\ orden # None
    /\ IF EntradaCancela(id_platillo, cantidad)
       THEN IF respuesta = "s"
            THEN /\ orden' = None
                 /\ salida' = <<"crear_orden", "cancelada">>
                 /\ heap' = Recolectar(heap, platillos, ordenes, None)
                 /\ UNCHANGED <<ordenes, contador_ordenes, archivos_ordenes, max_asignado>>
            ELSE /\ salida' = <<"crear_orden", "agregando">>
                 /\ UNCHANGED <<heap, ordenes, contador_ordenes, orden, archivos_ordenes,
                                max_asignado>>
       ELSE LET o == IF EntradaAceptada(id_platillo, cantidad)
                     THEN Orden_agregar_platillo(orden, heap, platillos[id_platillo],
                                                 Entero(cantidad))
                     ELSE orden
            IN  IF respuesta = "s"
                THEN /\ orden' = o
                     /\ salida' = <<"crear_orden", "agregando">>
                     /\ UNCHANGED <<heap, ordenes, contador_ordenes, archivos_ordenes,
                                    max_asignado>>
                ELSE /\ orden' = None
                     /\ finalizar_orden(o, fs)
    /\ UNCHANGED <<platillos, cierre_caja, archivos_platillos>>

\* The position of the first order of the log with this number, 0 if none
Indice(ords, numero) ==
    IF \E i \in 1..Len(ords) : ords[i].numero_orden = numero
    THEN CHOOSE i \in 1..Len(ords) :
             /\ ords[i].numero_orden = numero
             /\ \A j \in 1..(i - 1) : ords[j].numero_orden # numero
    ELSE 0

SinElemento(s, i) == SubSeq(s, 1, i - 1) \o SubSeq(s, i + 1, Len(s))

\* The files whose name starts with orden_{numero:04d}_
ArchivosDeOrden(archivos, numero) == {a \in archivos : a.numero = Formato04d(numero)}

\* eliminar_orden as it would be without the startswith test of line 413: the
\* first file os.listdir gives is the one deleted
eliminar_orden_sin_prefijo(numero_orden, confirmacion, archivo, fs) ==
    /\ EnMenu
    /\ IF ~EsEntero(numero_orden)
       THEN /\ salida' = <<"eliminar_orden", "invalido">>
            /\ UNCHANGED <<heap, ordenes, archivos_ordenes>>
       ELSE IF Indice(ordenes, Entero(numero_orden)) = 0
       THEN /\ salida' = <<"eliminar_orden", "no_encontrada">>
            /\ UNCHANGED <<heap, ordenes, archivos_ordenes>>
       ELSE IF confirmacion # "s"
       THEN /\ salida' = <<"eliminar_orden", "cancelada">>
            /\ UNCHANGED <<heap, ordenes, archivos_ordenes>>
       ELSE LET numero == Entero(numero_orden)
            IN  /\ ordenes' = SinElemento(ordenes, Indice(ordenes, numero))
                /\ heap' = Recolectar(heap, platillos, ordenes', None)
                /\ IF fs = "ok"
                   THEN /\ archivos_ordenes' = archivos_ordenes \ {archivo}
                        /\ archivos_ordenes # {} => archivo \in archivos_ordenes
                        /\ salida' = <<"eliminar_orden", "eliminada">>
                   ELSE /\ archivos_ordenes' = archivos_ordenes
                        /\ salida' = <<"eliminar_orden", "error_archivo">>
    /\ UNCHANGED <<platillos, contador_ordenes, cierre_caja, orden, archivos_platillos,
                   max_asignado>>

\* archivo is the first file of os.listdir with the prefix, when there is one
eliminar_orden(numero_orden, confirmacion, archivo, fs) ==
    /\ EnMenu
    /\ IF ~EsEntero(numero_orden)
       THEN /\ salida' = <<"eliminar_orden", "invalido">>
            /\ UNCHANGED <<heap, ordenes, archivos_ordenes>>
       ELSE IF Indice(ordenes, Entero(numero_orden)) = 0
       THEN /\ salida' = <<"eliminar_orden", "no_encontrada">>
            /\ UNCHANGED <<heap, ordenes, archivos_ordenes>>
       ELSE IF confirmacion # "s"
       THEN /\ salida' = <<"eliminar_orden", "cancelada">>
            /\ UNCHANGED <<heap, ordenes, archivos_ordenes>>
       ELSE LET numero == Entero(numero_orden)
                con_prefijo == ArchivosDeOrden(archivos_ordenes, numero)
            IN  /\ ordenes' = SinElemento(ordenes, Indice(ordenes, numero))
                /\ heap' = Recolectar(heap, platillos, ordenes', None)
                /\ IF fs = "ok"
                   THEN /\ archivos_ordenes' =
                              IF con_prefijo = {} THEN archivos_ordenes
                              ELSE archivos_ordenes \ {archivo}
                        /\ con_prefijo # {} => archivo \in con_prefijo
                        /\ salida' = <<"eliminar_orden", "eliminada">>
                   ELSE /\ archivos_ordenes' = archivos_ordenes
                        /\ salida' = <<"eliminar_orden", "error_archivo">>
    /\ UNCHANGED <<platillos, contador_ordenes, cierre_caja, orden, archivos_platillos,
                   max_asignado>>

\* generar_cierre_caja as it would be if the failed attempt discarded the report
generar_cierre_caja_descarta_el_anterior ==
    /\ EnMenu
    /\ IF ordenes = <<>>
       THEN /\ salida' = <<"generar_cierre_caja", "sin_ordenes">>
            /\ cierre_caja' = None
       ELSE /\ cierre_caja' = CierreCaja(ordenes, heap)
            /\ salida' = <<"generar_cierre_caja", "generado">>
    /\ UNCHANGED <<heap, platillos, ordenes, contador_ordenes, orden, archivos_platillos,
                   archivos_ordenes, max_asignado>>

generar_cierre_caja ==
    /\ EnMenu
    /\ IF ordenes = <<>>
       THEN /\ salida' = <<"generar_cierre_caja", "sin_ordenes">>
            /\ UNCHANGED cierre_caja
       ELSE /\ cierre_caja' = CierreCaja(ordenes, heap)
            /\ salida' = <<"generar_cierre_caja", "generado">>
    /\ UNCHANGED <<heap, platillos, ordenes, contador_ordenes, orden, archivos_platillos,
                   archivos_ordenes, max_asignado>>

\* quedan: with fs = "error", the files left when os.remove raised
eliminar_listado_ordenes(confirmacion, quedan, fs) ==
    /\ EnMenu
    /\ IF ordenes = <<>>
       THEN /\ salida' = <<"eliminar_listado_ordenes", "sin_ordenes">>
            /\ UNCHANGED <<heap, ordenes, contador_ordenes, cierre_caja, archivos_ordenes,
                           max_asignado>>
       ELSE IF confirmacion # "s"
       THEN /\ salida' = <<"eliminar_listado_ordenes", "cancelada">>
            /\ UNCHANGED <<heap, ordenes, contador_ordenes, cierre_caja, archivos_ordenes,
                           max_asignado>>
       ELSE IF fs = "ok" \/ archivos_ordenes = {}
       THEN /\ archivos_ordenes' = {}
            /\ ordenes' = <<>>
            /\ contador_ordenes' = 1
            /\ cierre_caja' = None
            /\ heap' = Recolectar(heap, platillos, <<>>, None)
            /\ max_asignado' = 0
            /\ salida' = <<"eliminar_listado_ordenes", "eliminado">>
       ELSE /\ quedan # {} /\ quedan \subseteq archivos_ordenes
            /\ archivos_ordenes' = quedan
            /\ salida' = <<"eliminar_listado_ordenes", "error">>
            /\ UNCHANGED <<heap, ordenes, contador_ordenes, cierre_caja, max_asignado>>
    /\ UNCHANGED <<platillos, orden, archivos_platillos>>

\* ------------------------------------------------------------------ restart
\* The process ends and app() runs again: Restaurant.__init__ and cargar_datos
\* over the directories as they are. listado is the order of os.listdir.
Restaurant(listado) ==
    LET cargados == cargar_platillos(archivos_platillos, listado)
    IN  /\ listado \in Permutaciones(DOMAIN archivos_platillos)
        /\ heap' = [r \in {<<id, 1>> : id \in DOMAIN cargados} |-> cargados[r[1]]]
        /\ platillos' = [id \in DOMAIN cargados |-> <<id, 1>>]
        /\ ordenes' = <<>>
        /\ contador_ordenes' = cargar_ordenes(archivos_ordenes)
        /\ cierre_caja' = None
        /\ orden' = None
        /\ salida' = <<"app", "iniciado">>
        /\ UNCHANGED <<archivos_platillos, archivos_ordenes, max_asignado>>

\* ------------------------------------------------------- next-state relation
\* The operations of the menu. E gives the sets the inputs are drawn from, what
\* the file system may do on a write (fss) and on a delete (fbs), and the bounds.
Operacion(E) ==
    \/ mostrar_menu
    \/ \E id \in E.ids, nombre \in E.nombres, precio \in E.precios,
          categoria \in E.categorias, fs \in E.fss :
           agregar_platillo(id, nombre, precio, categoria, fs)
    \/ \E id \in E.ids, nombre \in E.ed_nombres, precio \in E.ed_precios,
          categoria \in E.ed_categorias, disponible \in E.ed_disponibles, fs \in E.fss :
           editar_platillo(id, nombre, precio, categoria, disponible, fs)
    \/ \E id \in E.ids, confirmacion \in E.resp_platillo, fs \in E.fbs :
           eliminar_platillo(id, confirmacion, fs)
    \/ \E cliente \in E.clientes, fecha \in E.fechas :
           /\ Len(ordenes) < E.max_ordenes
           /\ contador_ordenes <= E.max_numero
           /\ crear_orden(cliente, fecha)
    \/ \E id \in E.ids \cup {<<"0">>}, cantidad \in E.cantidades,
          respuesta \in Respuestas, fs \in E.fss :
           /\ orden # None
           /\ EntradaAceptada(id, cantidad) => Len(orden.platillos) < E.max_items
           /\ paso_orden(id, cantidad, respuesta, fs)
    \/ \E numero \in {Digitos(n) : n \in 1..E.max_numero} \cup {<<"x">>},
          confirmacion \in E.resp_orden, archivo \in archivos_ordenes \cup {None},
          fs \in E.fbs :
           eliminar_orden(numero, confirmacion, archivo, fs)
    \/ generar_cierre_caja
    \/ \E confirmacion \in E.resp_listado, quedan \in SUBSET archivos_ordenes,
          fs \in E.fbs :
           eliminar_listado_ordenes(confirmacion, quedan, fs)
    \/ \E listado \in Permutaciones(DOMAIN archivos_platillos) : Restaurant(listado)

\* Runs about the numbering of the orders: one dish that is never edited or
\* removed, every order operation with every answer, every file operation succeeds
PerfilNumeros ==
    [ids |-> {<<"p1">>}, nombres |-> {<<"sopa">>}, precios |-> {<<"5">>},
     categorias |-> {<<"Entrada">>},
     ed_nombres |-> {<<>>}, ed_precios |-> {<<>>}, ed_categorias |-> {<<>>},
     ed_disponibles |-> {""}, resp_platillo |-> {"n"},
     clientes |-> {<<"ana">>, <<"0">>, <<>>}, fechas |-> {1},
     cantidades |-> {<<"1">>, <<"0">>, <<"x">>},
     resp_orden |-> Respuestas, resp_listado |-> Respuestas,
     fss |-> {"ok"}, fbs |-> {"ok"},
     max_ordenes |-> MaxOrdenes, max_items |-> MaxItems, max_numero |-> MaxNumero]

NextNumeros == Operacion(PerfilNumeros)

SpecNumeros == Init /\ [][NextNumeros]_vars

\* Runs about the dishes: two ids, two values of every field, every edit; orders
\* are begun but no item is accepted
PerfilPlatillos ==
    [ids |-> Ids, nombres |-> Nombres, precios |-> PrecioEntradas,
     categorias |-> Categorias,
     ed_nombres |-> {<<>>, <<"sopa", SEP, "fria">>},
     ed_precios |-> {<<>>, <<"1", "0">>, <<"x">>},
     ed_categorias |-> {<<>>, <<"Postre">>}, ed_disponibles |-> {"", "s", "n"},
     resp_platillo |-> Respuestas,
     clientes |-> {<<"ana">>}, fechas |-> {1}, cantidades |-> {<<"x">>},
     resp_orden |-> {"n"}, resp_listado |-> {"n"},
     fss |-> {"ok"}, fbs |-> {"ok"},
     max_ordenes |-> MaxOrdenes, max_items |-> MaxItems, max_numero |-> MaxNumero]

NextPlatillos == Operacion(PerfilPlatillos)

SpecPlatillos == Init /\ [][NextPlatillos]_vars

\* Runs about the amounts of the orders: one dish whose price is edited and
\* which is removed and added again while orders refer to it
PerfilImportes ==
    [ids |-> {<<"p1">>}, nombres |-> {<<"sopa">>}, precios |-> {<<"5">>},
     categorias |-> {<<"Entrada">>},
     ed_nombres |-> {<<>>}, ed_precios |-> {<<>>, <<"1", "0">>}, ed_categorias |-> {<<>>},
     ed_disponibles |-> {""}, resp_platillo |-> Respuestas,
     clientes |-> {<<"ana">>}, fechas |-> {1},
     cantidades |-> {<<"1">>, <<"2">>},
     resp_orden |-> {"n"}, resp_listado |-> Respuestas,
     fss |-> {"ok"}, fbs |-> {"ok"},
     max_ordenes |-> MaxOrdenes, max_items |-> MaxItems, max_numero |-> MaxOrdenes]

NextImportes == Operacion(PerfilImportes)

SpecImportes == Init /\ [][NextImportes]_vars

\* Runs about the closing report: two dishes of either category, orders of
\* one or two units of each
PerfilCierre ==
    [ids |-> Ids, nombres |-> {<<"sopa">>}, precios |-> {<<"5">>},
     categorias |-> Categorias,
     ed_nombres |-> {<<>>}, ed_precios |-> {<<>>}, ed_categorias |-> {<<>>},
     ed_disponibles |-> {""}, resp_platillo |-> {"n"},
     clientes |-> {<<"ana">>}, fechas |-> {1},
     cantidades |-> {<<"1">>, <<"2">>},
     resp_orden |-> {"n"}, resp_listado |-> Respuestas,
     fss |-> {"ok"}, fbs |-> {"ok"},
     max_ordenes |-> MaxOrdenes, max_items |-> MaxItems, max_numero |-> MaxOrdenes]

NextCierre == Operacion(PerfilCierre)

SpecCierre == Init /\ [][NextCierre]_vars

\* Runs in which the file system fails under the orders: one dish that is never
\* removed; writes that cannot open the file or break off after opening it,
\* deletions that raise OSError; the loop of app() catches what the operation
\* does not and the session goes on
PerfilFallos ==
    [ids |-> {<<"p1">>}, nombres |-> {<<"sopa">>}, precios |-> {<<"5">>},
     categorias |-> {<<"Entrada">>},
     ed_nombres |-> {<<>>}, ed_precios |-> {<<>>}, ed_categorias |-> {<<>>},
     ed_disponibles |-> {""}, resp_platillo |-> {"n"},
     clientes |-> {<<"ana">>}, fechas |-> {1},
     cantidades |-> {<<"1">>},
     resp_orden |-> Respuestas, resp_listado |-> Respuestas,
     fss |-> ResultadosEscritura, fbs |-> ResultadosBorrado,
     max_ordenes |-> MaxOrdenes, max_items |-> MaxItems, max_numero |-> MaxNumero]

NextFallos == Operacion(PerfilFallos)

SpecFallos == Init /\ [][NextFallos]_vars

\* Runs in which the file system fails under the dishes: two ids, dishes added,
\* edited and removed with writes and deletions that fail; orders are begun but
\* no item is accepted
PerfilFallosPlatillos ==
    [ids |-> Ids, nombres |-> {<<"sopa">>}, precios |-> {<<"5">>},
     categorias |-> {<<"Entrada">>},
     ed_nombres |-> {<<>>}, ed_precios |-> {<<>>, <<"1", "0">>}, ed_categorias |-> {<<>>},
     ed_disponibles |-> {""}, resp_platillo |-> Respuestas,
     clientes |-> {<<"ana">>}, fechas |-> {1}, cantidades |-> {<<"x">>},
     resp_orden |-> {"n"}, resp_listado |-> {"n"},
     fss |-> ResultadosEscritura, fbs |-> ResultadosBorrado,
     max_ordenes |-> MaxOrdenes, max_items |-> MaxItems, max_numero |-> MaxNumero]

NextFallosPlatillos == Operacion(PerfilFallosPlatillos)

SpecFallosPlatillos == Init /\ [][NextFallosPlatillos]_vars

\* Runs about what an order shows of its dishes: one dish whose name, price
\* and category are edited, and which is removed, after orders were committed
PerfilInstantanea ==
    [ids |-> {<<"p1">>}, nombres |-> {<<"sopa">>}, precios |-> {<<"5">>},
     categorias |-> {<<"Entrada">>},
     ed_nombres |-> {<<>>, <<"sopa", SEP, "fria">>}, ed_precios |-> {<<>>, <<"1", "0">>},
     ed_categorias |-> {<<>>, <<"Postre">>},
     ed_disponibles |-> {""}, resp_platillo |-> Respuestas,
     clientes |-> {<<"ana">>}, fechas |-> {1},
     cantidades |-> {<<"1">>},
     resp_orden |-> {"n"}, resp_listado |-> {"n"},
     fss |-> {"ok"}, fbs |-> {"ok"},
     max_ordenes |-> MaxOrdenes, max_items |-> MaxItems, max_numero |-> MaxOrdenes]

NextInstantanea == Operacion(PerfilInstantanea)

SpecInstantanea == Init /\ [][NextInstantanea]_vars

\* Runs about the order files: one dish, orders committed at either of two
\* moments, removed, cleared and outlived by restarts; every file operation
\* succeeds
PerfilArchivos ==
    [ids |-> {<<"p1">>}, nombres |-> {<<"sopa">>}, precios |-> {<<"5">>},
     categorias |-> {<<"Entrada">>},
     ed_nombres |-> {<<>>}, ed_precios |-> {<<>>}, ed_categorias |-> {<<>>},
     ed_disponibles |-> {""}, resp_platillo |-> {"n"},
     clientes |-> {<<"ana">>}, fechas |-> Fechas,
     cantidades |-> {<<"1">>},
     resp_orden |-> Respuestas, resp_listado |-> Respuestas,
     fss |-> {"ok"}, fbs |-> {"ok"},
     max_ordenes |-> MaxOrdenes, max_items |-> MaxItems, max_numero |-> MaxNumero]

NextArchivos == Operacion(PerfilArchivos)

SpecArchivos == Init /\ [][NextArchivos]_vars

\* ------------------------------------------------------------------ claims
CantidadEntradas == {<<"1">>, <<"2">>, <<"0">>, <<"x">>, <<"-", "1">>}

\* C1: in a run without clear-all, the number of a newly committed order is
\* greater than every order number assigned earlier in the run, also across
\* removals and restarts. (max_asignado is the largest number assigned since the
\* last clear-all.)
C1_NumeroNuncaReusado ==
    [][Len(ordenes') = Len(ordenes) + 1
           => ordenes'[Len(ordenes')].numero_orden > max_asignado]_vars

\* C2: when every file operation succeeds, the order numbers of the log are
\* positive and strictly increasing by position (hence pairwise distinct).
C2_LogCreciente ==
    \A i \in 1..Len(ordenes) :
        /\ ordenes[i].numero_orden > 0
        /\ \A j \in 1..(i - 1) : ordenes[j].numero_orden < ordenes[i].numero_orden

\* A log of two orders committed after a restart that found an order file of
\* an earlier session
C2_Testigo ==
    /\ Len(ordenes) = 2
    /\ ordenes[1].numero_orden = 2
    /\ ordenes[2].numero_orden = 3
    /\ \E a \in archivos_ordenes : a.numero = <<"0", "0", "0", "1">>

\* C3: from any reachable state a confirmed clear-all leaves no order file on
\* disk, an empty log and the counter at 1.
C3_ListadoDejaTodoVacio ==
    [][(\E quedan \in SUBSET archivos_ordenes, fs \in ResultadosBorrado :
            fs = "ok" /\ eliminar_listado_ordenes("s", quedan, fs))
           => archivos_ordenes' = {} /\ ordenes' = <<>> /\ contador_ordenes' = 1]_vars

\* C5: a construction that the user aborts, or that ends with no line item,
\* leaves the order log, the counter, the order files and the closing report
\* as they were when crear_orden was called (no step of the construction
\* changes them), and an order under construction carries the number the
\* counter holds, so the next order gets the number of the aborted one.
C5_Aborta(id, cantidad, respuesta) == EntradaCancela(id, cantidad) /\ respuesta = "s"

C5_Sigue(id, cantidad, respuesta) ==
    IF EntradaCancela(id, cantidad) THEN respuesta # "s" ELSE respuesta = "s"

C5_TerminaVacia(id, cantidad, respuesta) ==
    /\ ~EntradaCancela(id, cantidad)
    /\ ~EntradaAceptada(id, cantidad)
    /\ respuesta # "s"
    /\ orden.platillos = <<>>

C5_AbortoSinCambios ==
    /\ [][/\ \A cliente \in Clientes \cup {<<"0">>, <<>>}, fecha \in Fechas :
                 crear_orden(cliente, fecha)
                     => UNCHANGED <<ordenes, contador_ordenes, archivos_ordenes, cierre_caja>>
          /\ \A id \in Ids \cup {<<"0">>}, cantidad \in CantidadEntradas,
                respuesta \in Respuestas :
                 (/\ paso_orden(id, cantidad, respuesta, "ok")
                  /\ \/ C5_Aborta(id, cantidad, respuesta)
                     \/ C5_Sigue(id, cantidad, respuesta)
                     \/ C5_TerminaVacia(id, cantidad, respuesta))
                     => /\ UNCHANGED <<ordenes, contador_ordenes, archivos_ordenes,
                                       cierre_caja>>
                        /\ C5_Sigue(id, cantidad, respuesta) \/ orden' = None]_vars
    /\ [](orden # None => orden.numero_orden = contador_ordenes)

\* An abort in a session that has an order, its file and a closing report
C5_Testigo ==
    /\ salida = <<"crear_orden", "cancelada">>
    /\ Len(ordenes) = 1
    /\ contador_ordenes = 2
    /\ archivos_ordenes # {}
    /\ cierre_caja # None

\* C4: the total of every order is the sum of its subtotals; the subtotal of an
\* item is its quantity times the price the dish had when the item was added;
\* no later operation on the dish (edit, removal) changes the item or the total.
C4_TotalEsSuma(o) ==
    o.total = Suma([k \in 1..Len(o.platillos) |-> o.platillos[k].subtotal])

C4_ItemNuevo(antes, despues) ==
    /\ Len(despues) = Len(antes) + 1
    /\ SubSeq(despues, 1, Len(antes)) = antes
    /\ LET it == despues[Len(despues)]
       IN  it.subtotal = it.cantidad * heap[it.platillo].precio

C4_Importes ==
    /\ [](/\ \A i \in 1..Len(ordenes) : C4_TotalEsSuma(ordenes[i])
          /\ orden # None => C4_TotalEsSuma(orden))
    /\ [][/\ (orden # None /\ orden' # None /\ orden' # orden)
                 => C4_ItemNuevo(orden.platillos, orden'.platillos)
          /\ Len(ordenes') = Len(ordenes) + 1
                 => /\ SubSeq(ordenes', 1, Len(ordenes)) = ordenes
                    /\ orden # None
                    /\ LET o == ordenes'[Len(ordenes')]
                       IN  \/ o.platillos = orden.platillos
                           \/ C4_ItemNuevo(orden.platillos, o.platillos)
          /\ Len(ordenes') = Len(ordenes) => ordenes' = ordenes]_vars

\* Two orders: the dish of the first was removed from the menu afterwards, the
\* dish of the second had its price raised from 5 to 10 afterwards
C4_Testigo ==
    /\ Len(ordenes) = 2
    /\ ordenes[1].platillos[1].platillo \notin Rango(platillos)
    /\ LET it == ordenes[2].platillos[1]
       IN  /\ it.platillo \in Rango(platillos)
           /\ heap[it.platillo].precio = 10
           /\ it.subtotal = 5 * it.cantidad

\* What the price inputs that parse stand for
ValorPrecio == [p \in {<<"5">>, <<"1", "0">>} |-> IF p = <<"5">> THEN 5 ELSE 10]

\* C6: agregar_platillo with an identifier already present fails and changes
\* no dish in memory and no dish file.
C6_DuplicadoSinCambios ==
    [][\A id \in Ids, nombre \in Nombres, precio \in PrecioEntradas,
          categoria \in Categorias :
           (id \in DOMAIN platillos /\ agregar_platillo(id, nombre, precio, categoria, "ok"))
               => /\ salida' = <<"agregar_platillo", "ya_existe">>
                  /\ UNCHANGED <<heap, platillos, archivos_platillos>>]_vars

C6_Testigo ==
    /\ salida = <<"agregar_platillo", "ya_existe">>
    /\ DOMAIN platillos = Ids
    /\ DOMAIN archivos_platillos = Ids

\* C7: agregar_platillo with a new identifier and a price that parses succeeds;
\* buscar_platillo then returns exactly those fields with disponible true, and
\* the other dishes are as before.
C7_AgregarLuegoBuscar ==
    [][\A id \in Ids, nombre \in Nombres, precio \in DOMAIN ValorPrecio,
          categoria \in Categorias :
           (id \notin DOMAIN platillos /\ agregar_platillo(id, nombre, precio, categoria, "ok"))
               => /\ salida' = <<"agregar_platillo", "agregado">>
                  /\ buscar_platillo(id)' =
                         [id_platillo |-> id, nombre |-> nombre,
                          precio |-> ValorPrecio[precio], categoria |-> categoria,
                          disponible |-> TRUE]
                  /\ DOMAIN platillos' = DOMAIN platillos \cup {id}
                  /\ \A otro \in DOMAIN platillos :
                         buscar_platillo(otro)' = buscar_platillo(otro)]_vars

\* A dish added next to another one that had been edited
C7_Testigo ==
    /\ salida = <<"agregar_platillo", "agregado">>
    /\ DOMAIN platillos = Ids
    /\ \E id \in Ids : ~heap[platillos[id]].disponible

\* C8: editar_platillo on an existing dish changes exactly the fields whose
\* input is not blank (the price only when the input parses; the other inputs
\* are applied all the same), never the identifier nor another dish; with the
\* four inputs blank the dish is as before.
C8_EditarSoloLoDado ==
    [][\A id \in Ids, nombre \in PerfilPlatillos.ed_nombres,
          precio \in PerfilPlatillos.ed_precios,
          categoria \in PerfilPlatillos.ed_categorias,
          disponible \in PerfilPlatillos.ed_disponibles :
           (id \in DOMAIN platillos
            /\ editar_platillo(id, nombre, precio, categoria, disponible, "ok"))
               => LET antes == heap[platillos[id]]
                      despues == heap'[platillos[id]]
                  IN  /\ despues.id_platillo = antes.id_platillo
                      /\ despues.nombre = IF nombre = <<>> THEN antes.nombre ELSE nombre
                      /\ despues.precio = IF precio \in DOMAIN ValorPrecio
                                          THEN ValorPrecio[precio] ELSE antes.precio
                      /\ despues.categoria =
                             IF categoria = <<>> THEN antes.categoria ELSE categoria
                      /\ despues.disponible =
                             IF disponible = "" THEN antes.disponible ELSE disponible = "s"
                      /\ platillos' = platillos
                      /\ DOMAIN heap' = DOMAIN heap
                      /\ \A r \in DOMAIN heap \ {platillos[id]} : heap'[r] = heap[r]
                      /\ (nombre = <<>> /\ precio = <<>> /\ categoria = <<>>
                          /\ disponible = "") => despues = antes]_vars

\* An edit has run and left a dish with every field different from what
\* agregar_platillo can give it together: not available, price 10
C8_Testigo ==
    /\ salida = <<"editar_platillo", "actualizado">>
    /\ DOMAIN platillos = Ids
    /\ \E id \in Ids : LET p == heap[platillos[id]]
                       IN  ~p.disponible /\ p.precio = 10 /\ p.categoria = <<"Postre">>

\* C9: the report generated from a log of N > 0 orders has total_ordenes = N,
\* total_ingresos = the sum of the orders' totals, promedio_orden x N =
\* total_ingresos and platillos_vendidos = the sum of the quantities of all
\* line items; generating it changes no order, dish, counter or file.
RECURSIVE C9_Ingresos(_)
C9_Ingresos(ords) == IF ords = <<>> THEN 0 ELSE ords[1].total + C9_Ingresos(Tail(ords))

RECURSIVE C9_Unidades(_)
C9_Unidades(its) == IF its = <<>> THEN 0 ELSE its[1].cantidad + C9_Unidades(Tail(its))

RECURSIVE C9_Vendidos(_)
C9_Vendidos(ords) ==
    IF ords = <<>> THEN 0 ELSE C9_Unidades(ords[1].platillos) + C9_Vendidos(Tail(ords))

C10_Categoria(k) == heap[Items(ordenes)[k].platillo].categoria

RECURSIVE C10_Acumulado(_, _)
\* The units of category c among the first k line items
C10_Acumulado(c, k) ==
    IF k = 0 THEN 0
    ELSE C10_Acumulado(c, k - 1)
             + (IF C10_Categoria(k) = c THEN Items(ordenes)[k].cantidad ELSE 0)

C10_Cantidad(c) == C10_Acumulado(c, Len(Items(ordenes)))

C10_Vendidas == {C10_Categoria(k) : k \in 1..Len(Items(ordenes))}

\* The position of the first line item of category c
C10_Aparece(c) == CHOOSE k \in 1..Len(Items(ordenes)) :
                      /\ C10_Categoria(k) = c
                      /\ \A j \in 1..(k - 1) : C10_Categoria(j) # c

\* The position at which the running sum of category c first reaches m
C10_Alcanza(c, m) == CHOOSE k \in 1..Len(Items(ordenes)) :
                         /\ C10_Acumulado(c, k) >= m
                         /\ \A j \in 1..(k - 1) : C10_Acumulado(c, j) < m

C10_Generado == salida = <<"generar_cierre_caja", "generado">>

\* C10 as stated: the reported category has the largest summed quantity, and
\* among the categories that share it, it is the one whose running sum reaches
\* that value first in the scan of the line items.
C10_PrimeraEnAlcanzarElMaximo ==
    C10_Generado =>
        LET g == cierre_caja.categoria_mas_vendida
        IN  /\ g[1] \in C10_Vendidas
            /\ g[2] = C10_Cantidad(g[1])
            /\ \A c \in C10_Vendidas :
                   /\ C10_Cantidad(c) <= g[2]
                   /\ (c # g[1] /\ C10_Cantidad(c) = g[2])
                          => C10_Alcanza(g[1], g[2]) < C10_Alcanza(c, g[2])

\* C10 as amended: the reported category has the largest summed quantity, and
\* among the categories that share it, it is the one that appears first in the
\* scan of the line items.
C10_PrimeraEnAparecer ==
    C10_Generado =>
        LET g == cierre_caja.categoria_mas_vendida
        IN  /\ g[1] \in C10_Vendidas
            /\ g[2] = C10_Cantidad(g[1])
            /\ \A c \in C10_Vendidas :
                   /\ C10_Cantidad(c) <= g[2]
                   /\ (c # g[1] /\ C10_Cantidad(c) = g[2])
                          => C10_Aparece(g[1]) < C10_Aparece(c)

\* A report over a tie in which the reported category appears first but is
\* not the first to reach the shared maximum
C10_Testigo ==
    /\ C10_Generado
    /\ LET g == cierre_caja.categoria_mas_vendida
       IN  \E c \in C10_Vendidas :
               /\ c # g[1]
               /\ C10_Cantidad(c) = g[2]
               /\ C10_Alcanza(c, g[2]) < C10_Alcanza(g[1], g[2])
               /\ Len(ordenes) = 2

\* C11: generar_cierre_caja over an empty order log reports the failure and
\* leaves everything else as it was; the closing report in particular, absent
\* or generated earlier, is the one that was there before the call.
C11_SinOrdenesNoCambiaNada ==
    [][(generar_cierre_caja /\ ordenes = <<>>)
           => /\ salida' = <<"generar_cierre_caja", "sin_ordenes">>
              /\ cierre_caja' = cierre_caja
              /\ UNCHANGED <<heap, platillos, ordenes, contador_ordenes, orden,
                             archivos_platillos, archivos_ordenes>>]_vars

\* The attempt failed while a report generated earlier, over orders removed
\* since, is the current one
C11_Testigo ==
    /\ salida = <<"generar_cierre_caja", "sin_ordenes">>
    /\ ordenes = <<>>
    /\ cierre_caja # None
    /\ cierre_caja.total_ordenes = 2

\* C12. The order numbers the names of the order files carry
C12_NumerosEnDisco ==
    {n \in 1..(MaxNumero + 1) : \E a \in archivos_ordenes : a.numero = Formato04d(n)}

C12_Reinicio == \E listado \in Permutaciones(DOMAIN archivos_platillos) : Restaurant(listado)

C13_PlatilloVuelveIgual ==
    [][C12_Reinicio
           => \A id \in DOMAIN platillos :
                  /\ id \in DOMAIN platillos'
                  /\ heap'[platillos'[id]] = heap[platillos[id]]]_vars

\* C14. What the operator may type as an order number
C14_Numeros == {Digitos(n) : n \in 1..MaxNumero} \cup {<<"x">>}

\* The log holds an order with the number typed
C14_EnListado(numero) ==
    EsEntero(numero) /\ \E i \in 1..Len(ordenes) : ordenes[i].numero_orden = Entero(numero)

\* The order files whose name carries the number typed
C14_ArchivosDe(numero) == {a \in archivos_ordenes : a.numero = Formato04d(Entero(numero))}

\* Every dish of the repository is the object it was, with the fields it had
C14_PlatillosIguales ==
    /\ platillos' = platillos
    /\ \A id \in DOMAIN platillos : heap'[platillos[id]] = heap[platillos[id]]
    /\ archivos_platillos' = archivos_platillos

\* What eliminar_orden does apart from the order file: nothing when the number
\* is not in the log or the confirmation is refused, otherwise one order with
\* the number leaves the log and the rest of the state stays
C14_EnMemoria(numero, confirmacion) ==
    /\ C14_PlatillosIguales
    /\ UNCHANGED <<contador_ordenes, cierre_caja, orden>>
    /\ IF C14_EnListado(numero) /\ confirmacion = "s"
       THEN \E i \in 1..Len(ordenes) :
                /\ ordenes[i].numero_orden = Entero(numero)
                /\ ordenes' = SinElemento(ordenes, i)
       ELSE UNCHANGED <<ordenes, archivos_ordenes, heap>>

\* One order file carrying the number is deleted, when there is one, and no other
C14_BorraSuArchivo(numero) ==
    IF C14_ArchivosDe(numero) = {} THEN archivos_ordenes' = archivos_ordenes
    ELSE \E a \in C14_ArchivosDe(numero) : archivos_ordenes' = archivos_ordenes \ {a}

\* C14 as stated: a confirmed eliminar_orden(n) of an order in the log removes
\* exactly that order and deletes exactly the order file carrying n; the other
\* orders and files, the counter and the dishes are unchanged; nothing changes
\* when n is not in the log or the confirmation is refused.
C14_QuitaOrdenYArchivo ==
    [][salida'[1] = "eliminar_orden" =>
       \A numero \in C14_Numeros, confirmacion \in Respuestas,
          archivo \in archivos_ordenes \cup {None}, fs \in ResultadosBorrado :
           eliminar_orden(numero, confirmacion, archivo, fs)
               => /\ C14_EnMemoria(numero, confirmacion)
                  /\ (C14_EnListado(numero) /\ confirmacion = "s")
                         => C14_BorraSuArchivo(numero)]_vars

\* C14 as amended: the same, the file being deleted unless its deletion fails;
\* when it fails the order has left the log all the same, the failure is
\* reported and no file is deleted.
C14_QuitaOrdenYArchivoSiSePuede ==
    [][salida'[1] = "eliminar_orden" =>
       \A numero \in C14_Numeros, confirmacion \in Respuestas,
          archivo \in archivos_ordenes \cup {None}, fs \in ResultadosBorrado :
           eliminar_orden(numero, confirmacion, archivo, fs)
               => /\ C14_EnMemoria(numero, confirmacion)
                  /\ (C14_EnListado(numero) /\ confirmacion = "s")
                         => IF salida' = <<"eliminar_orden", "error_archivo">>
                            THEN fs = "error" /\ archivos_ordenes' = archivos_ordenes
                            ELSE /\ salida' = <<"eliminar_orden", "eliminada">>
                                 /\ C14_BorraSuArchivo(numero)]_vars

\* Order 1 of two was removed with its file: order 2 and its file stay
C14_Testigo ==
    /\ salida = <<"eliminar_orden", "eliminada">>
    /\ Len(ordenes) = 1
    /\ ordenes[1].numero_orden = 2
    /\ {a.numero : a \in archivos_ordenes} = {Formato04d(2)}
    /\ contador_ordenes = 3

\* C15: a confirmed eliminar_platillo(id) of a dish of the repository takes the
\* dish out of the repository; when the deletion of its file fails the failure
\* is reported and the directory is as it was, the file still in it; when it
\* succeeds the file is gone; the other dishes and files are unchanged; nothing
\* changes when the id is unknown or the confirmation is refused.
C15_EliminarSinVueltaAtras ==
    [][\A id \in Ids, confirmacion \in Respuestas, fs \in ResultadosBorrado :
           eliminar_platillo(id, confirmacion, fs)
               => /\ UNCHANGED <<ordenes, contador_ordenes, cierre_caja, orden,
                                 archivos_ordenes>>
                  /\ IF id \in DOMAIN platillos /\ confirmacion = "s"
                     THEN /\ DOMAIN platillos' = DOMAIN platillos \ {id}
                          /\ \A otro \in DOMAIN platillos' :
                                 /\ platillos'[otro] = platillos[otro]
                                 /\ heap'[platillos[otro]] = heap[platillos[otro]]
                          /\ \A otro \in DOMAIN archivos_platillos \ {id} :
                                 /\ otro \in DOMAIN archivos_platillos'
                                 /\ archivos_platillos'[otro] = archivos_platillos[otro]
                          /\ IF fs = "error" \/ id \notin DOMAIN archivos_platillos
                             THEN /\ salida' = <<"eliminar_platillo", "error_archivo">>
                                  /\ archivos_platillos' = archivos_platillos
                             ELSE /\ salida' = <<"eliminar_platillo", "eliminado">>
                                  /\ DOMAIN archivos_platillos'
                                         = DOMAIN archivos_platillos \ {id}
                     ELSE UNCHANGED <<heap, platillos, archivos_platillos>>]_vars

\* The deletion of the file of p1 failed: p1 is out of the repository, its
\* file is on disk, and p2 is in the repository with its file
C15_Testigo ==
    /\ salida = <<"eliminar_platillo", "error_archivo">>
    /\ DOMAIN platillos = {<<"p2">>}
    /\ DOMAIN archivos_platillos = {<<"p1">>, <<"p2">>}
    /\ archivos_platillos[<<"p1">>] # <<>>

\* C16. What a line item shows of its dish
C16_Vista(h, item) ==
    [nombre |-> h[item.platillo].nombre, categoria |-> h[item.platillo].categoria,
     precio |-> h[item.platillo].precio, cantidad |-> item.cantidad,
     subtotal |-> item.subtotal]

C16_VistaOrden(h, o) ==
    [numero_orden |-> o.numero_orden, cliente |-> o.cliente, total |-> o.total,
     platillos |-> [k \in 1..Len(o.platillos) |-> C16_Vista(h, o.platillos[k])]]

\* C16: as long as a committed order is in the log, no step changes its
\* customer, its line items, or the name, category, price, quantity or
\* subtotal a line item shows.
C16_OrdenInmutable ==
    [][\A i \in 1..Len(ordenes), j \in 1..Len(ordenes') :
           ordenes'[j].numero_orden = ordenes[i].numero_orden
               => C16_VistaOrden(heap', ordenes'[j]) = C16_VistaOrden(heap, ordenes[i])]_vars

\* C17: the counter is greater than the number of every order of the log.
C17_ContadorSobreElListado ==
    \A i \in 1..Len(ordenes) : ordenes[i].numero_orden < contador_ordenes

\* C18: a closing report that exists counts the orders of the list it shows
\* and saves, and its total is the sum of their totals.
C18_CierreCoherente ==
    cierre_caja # None
        => /\ cierre_caja.total_ordenes = Len(cierre_ordenes)
           /\ cierre_caja.total_ingresos = C9_Ingresos(cierre_ordenes)

\* C19: every order of the log has exactly one order file carrying its
\* number, and no two order files carry the same number.
C19_UnArchivoPorOrden ==
    /\ \A i \in 1..Len(ordenes) :
           Cardinality({a \in archivos_ordenes :
                            a.numero = Formato04d(ordenes[i].numero_orden)}) = 1
    /\ \A a, b \in archivos_ordenes : a.numero = b.numero => a = b

\* Two orders in the log and three order files: one is of an order committed
\* before the restart
C19_Testigo ==
    /\ EnMenu
    /\ Len(ordenes) = 2
    /\ Cardinality(archivos_ordenes) = 3
    /\ {a.fecha : a \in archivos_ordenes} = Fechas

====
